---- MODULE Spec2Model ----
(***************************************************************************)
(* File-backed REST CRUD server (src/main.py): one resource's data file,   *)
(* the schema file of that resource, and the request handlers of           *)
(* ResourceHandler and of the /schemas endpoints.                          *)
(* Further specifications follow two worker threads between a handler's    *)
(* read and write of the file (SpecRace), the data file failing            *)
(* (SpecFault) and the data directory changing after startup (SpecRoutes). *)
(*                                                                         *)
(* main.py uses the names `ceil` and `Tuple` without importing them; the   *)
(* model reads them as math.ceil and typing.Tuple.                         *)
(***************************************************************************)
EXTENDS Integers, Sequences, FiniteSets, TLC

VARIABLES
    resource,   \* the resource name the handler was registered for
    schema,     \* content of schemas/<resource>.json, or None when absent
    items,      \* content of data/<resource>.json: a sequence of records
    req,        \* the request being answered
    resp,       \* the response returned for req
    disk,       \* what reading and writing data/<resource>.json does
    files,      \* the resource names that have a file in the data directory
    routes,     \* the resource names whose routes were registered at startup
    threads     \* the requests that worker threads are answering at once

vars == <<resource, schema, items, req, resp, disk, files, routes, threads>>

\* What the handlers of one resource neither read nor write
others == <<routes, threads>>

-----------------------------------------------------------------------------
(* Bounds of the model.                                                    *)

MaxItems == 2       \* Create is not issued once the file holds this many
MaxIds == 3         \* the same cap where only ids are followed (SpecIds)
MaxTotal == 25      \* largest total_items given to get_pagination_metadata

-----------------------------------------------------------------------------
(* JSON values.  k is the JSON type; n the number of an integer; s the     *)
(* text of a string.                                                       *)

JInt(n) == [k |-> "int", n |-> n, s |-> ""]
JStr(s) == [k |-> "str", n |-> 0, s |-> s]
JNull == [k |-> "null", n |-> 0, s |-> ""]

None == [k |-> "None", n |-> 0, s |-> ""]

Digit(d) ==
    CASE d = 0 -> "0" [] d = 1 -> "1" [] d = 2 -> "2" [] d = 3 -> "3"
      [] d = 4 -> "4" [] d = 5 -> "5" [] d = 6 -> "6" [] d = 7 -> "7"
      [] d = 8 -> "8" [] d = 9 -> "9"

RECURSIVE Decimal(_)
Decimal(n) ==
    IF n < 0 THEN "-" \o Decimal(0 - n)
    ELSE IF n < 10 THEN Digit(n)
    ELSE Decimal(n \div 10) \o Digit(n % 10)

DEFAULT_PAGE_SIZE == 10
MAX_PAGE_SIZE == 100

\* str(x) of Python for a JSON value, and for None (dict.get of a missing key)
Str(v) ==
    CASE v.k = "int" -> Decimal(v.n)
      [] v.k = "str" -> v.s
      [] OTHER -> "None"

\* int(x) of Python for a query-string value: the integer whose decimal text
\* it is; a text that is no integer's makes int() raise ValueError.  IntRange
\* holds the integers the requests name.
IntRange == (0 - 2) .. (2 * MAX_PAGE_SIZE)
IntTexts == {Decimal(n) : n \in IntRange}
IntOfText == [text \in IntTexts |-> CHOOSE n \in IntRange : Decimal(n) = text]
IsIntText(text) == text \in IntTexts
IntOf(text) == IntOfText[text]

Max(a, b) == IF a >= b THEN a ELSE b
Min(a, b) == IF a <= b THEN a ELSE b

\* Integer division in place of ceil
CeilAsFloor(a, b) == a \div b

\* math.ceil(a / b) for a >= 0, b >= 1
Ceil(a, b) == (a + b - 1) \div b

\* str.title() of the resource names
Title(name) ==
    CASE name = "users" -> "Users"
      [] name = "locations" -> "Locations"
      [] name = "devices" -> "Devices"
      [] name = "consumption" -> "Consumption"
      [] name = "notes" -> "Notes"

-----------------------------------------------------------------------------
(* JSON Schema documents: the keywords DEFAULT_SCHEMAS uses.               *)

EmailPattern == "^[a-zA-Z0-9._%+-]+@[a-zA-Z0-9.-]+\\.[a-zA-Z]{2,}$"

\* re.search(pattern, text) over the strings the requests carry
PatternMatches(pattern, text) ==
    IF pattern = EmailPattern THEN text \in {"a@b.co"} ELSE TRUE

IntegerMin1 ==
    [types |-> {"int"}, hasMinimum |-> TRUE, minimum |-> 1, minLength |-> 0, pattern |-> ""]
StringMin1 ==
    [types |-> {"str"}, hasMinimum |-> FALSE, minimum |-> 0, minLength |-> 1, pattern |-> ""]
EmailString ==
    [types |-> {"str"}, hasMinimum |-> FALSE, minimum |-> 0, minLength |-> 0,
     pattern |-> EmailPattern]
IntegerOrNullMin1 ==
    [types |-> {"int", "null"}, hasMinimum |-> TRUE, minimum |-> 1, minLength |-> 0, pattern |-> ""]

DeviceSchema ==
    [wellformed |-> TRUE,
     properties |-> [f \in {"id", "name", "type", "location_id", "user_id"} |->
                        CASE f \in {"id", "location_id"} -> IntegerMin1
                          [] f \in {"name", "type"} -> StringMin1
                          [] OTHER -> IntegerOrNullMin1],
     required |-> {"name", "type", "location_id"},
     additionalProperties |-> FALSE]

DEFAULT_SCHEMAS ==
    [name \in {"users", "locations", "devices", "consumption"} |->
        CASE name = "users" ->
               [wellformed |-> TRUE,
                properties |-> [f \in {"id", "name", "email"} |->
                                   CASE f = "id" -> IntegerMin1
                                     [] f = "name" -> StringMin1
                                     [] OTHER -> EmailString],
                required |-> {"name", "email"},
                additionalProperties |-> FALSE]
          [] name = "locations" ->
               [wellformed |-> TRUE,
                properties |-> [f \in {"id", "name", "address"} |->
                                   IF f = "id" THEN IntegerMin1 ELSE StringMin1],
                required |-> {"name", "address"},
                additionalProperties |-> FALSE]
          [] OTHER -> DeviceSchema]

\* The state of the schemas directory entry after init_schemas()
init_schemas(name) ==
    IF name \in DOMAIN DEFAULT_SCHEMAS THEN DEFAULT_SCHEMAS[name] ELSE None

\* One property's subschema applied to one value: type, minimum, minLength,
\* pattern (format is not enforced: validate() is given no format checker)
ValidProperty(v, sub) ==
    /\ v.k \in sub.types
    /\ (v.k = "int" /\ sub.hasMinimum) => v.n >= sub.minimum
    /\ v.k = "str" => Len(v.s) >= sub.minLength
    /\ (v.k = "str" /\ sub.pattern # "") => PatternMatches(sub.pattern, v.s)

\* The instance-against-schema part of jsonschema.validate for an object
Conforms(instance, doc) ==
    /\ \A f \in DOMAIN instance \cap DOMAIN doc.properties :
            ValidProperty(instance[f], doc.properties[f])
    /\ doc.required \subseteq DOMAIN instance
    /\ (~doc.additionalProperties) => DOMAIN instance \subseteq DOMAIN doc.properties

\* jsonschema.validate(instance, schema): "SchemaError" for a document that is
\* no JSON Schema, "ValidationError" for an instance that does not conform
validate(instance, doc) ==
    IF ~doc.wellformed THEN "SchemaError"
    ELSE IF ~Conforms(instance, doc) THEN "ValidationError"
    ELSE "ok"

-----------------------------------------------------------------------------
(* Request inputs.                                                         *)

\* A query-string argument: absent, or present with a text
QAbsent == [present |-> FALSE, text |-> ""]
Q(text) == [present |-> TRUE, text |-> text]

PageArgs ==
    {QAbsent, Q("1"), Q("2"), Q("3"), Q("4"), Q("0"), Q("-1"), Q("abc"), Q("1.5")}
PerPageArgs ==
    {QAbsent, Q("1"), Q("2"), Q("10"), Q("0"), Q("150"), Q("abc"), Q("")}

\* The path ids the requests name
ItemIds == {Decimal(n) : n \in 1 .. MaxItems} \cup {"999"}

\* JSON request bodies
PUser == [f \in {"name", "email"} |->
            IF f = "name" THEN JStr("alice") ELSE JStr("a@b.co")]
PName == [f \in {"name"} |-> JStr("bob")]
PExtra == [f \in {"name", "email", "nickname"} |->
            CASE f = "name" -> JStr("alice")
              [] f = "email" -> JStr("a@b.co")
              [] OTHER -> JStr("al")]
PWithId == [f \in {"id", "name", "email"} |->
            CASE f = "id" -> JInt(2)
              [] f = "name" -> JStr("carol")
              [] OTHER -> JStr("a@b.co")]
PBadType == [f \in {"name", "email"} |->
            IF f = "name" THEN JInt(5) ELSE JStr("a@b.co")]
PDevice == [f \in {"name", "type", "location_id"} |->
            CASE f = "name" -> JStr("Thermostat")
              [] f = "type" -> JStr("sensor")
              [] OTHER -> JInt(1)]

PTextId == [f \in {"id", "name"} |->
            IF f = "id" THEN JStr("x") ELSE JStr("bob")]

Payloads == {PUser, PName, PExtra, PWithId, PBadType}

\* Schema documents the PUT /schemas requests carry
RelaxedSchema == [DEFAULT_SCHEMAS["users"] EXCEPT !.required = {}]
OpenSchema == [RelaxedSchema EXCEPT !.additionalProperties = TRUE]
MalformedSchema == [OpenSchema EXCEPT !.wellformed = FALSE]

-----------------------------------------------------------------------------
(* Responses.                                                              *)

Response(status, data, metadata) ==
    [status |-> status, error |-> "", data |-> data, metadata |-> metadata]
ErrorResponse(status, message) ==
    [status |-> status, error |-> message, data |-> None, metadata |-> None]

\* An exception that leaves the handler: the framework answers 500 with no
\* JSON error body
Propagated(exception) ==
    [status |-> 500, error |-> "",
     data |-> [k |-> "exception", n |-> 0, s |-> exception], metadata |-> None]

NotJson == ErrorResponse(400, "Content-Type must be application/json")
NotFound(name) == ErrorResponse(404, Title(name) \o " not found")

-----------------------------------------------------------------------------
(* JSONFileHandler: the data file is read and rewritten whole.             *)

load_json_file(file) == file

\* The data directory after load_json_file, which creates a missing file
Loaded == files \cup {resource}
\* A save that adds the last record of data to what the file holds now
save_json_file_append(data) ==
    IF Len(data) = 0 THEN data ELSE Append(items, data[Len(data)])

save_json_file(data) == data

\* {'id': x, **data}: the keys of data override
DictMerge(base, data) ==
    [f \in DOMAIN base \cup DOMAIN data |->
        IF f \in DOMAIN data THEN data[f] ELSE base[f]]

\* item.get('id')
GetId(item) == IF "id" \in DOMAIN item THEN item["id"] ELSE None

\* The search with index 0 as its default
FindIndexDefaultFirst(list, item_id) ==
    IF \E i \in 1 .. Len(list) : Str(GetId(list[i])) = item_id
    THEN CHOOSE i \in 1 .. Len(list) :
            /\ Str(GetId(list[i])) = item_id
            /\ \A j \in 1 .. (i - 1) : Str(GetId(list[j])) # item_id
    ELSE IF Len(list) > 0 THEN 1 ELSE 0

\* next(index for index, item in enumerate(items) if str(item.get('id')) ==
\* str(item_id)), 1-based; 0 stands for the default None
FindIndex(list, item_id) ==
    IF \E i \in 1 .. Len(list) : Str(GetId(list[i])) = item_id
    THEN CHOOSE i \in 1 .. Len(list) :
            /\ Str(GetId(list[i])) = item_id
            /\ \A j \in 1 .. (i - 1) : Str(GetId(list[j])) # item_id
    ELSE 0

\* list.pop() of the last element, whatever the index
PopLast(list, index) == SubSeq(list, 1, Len(list) - 1)

\* list.pop(index)
Pop(list, index) ==
    [i \in 1 .. (Len(list) - 1) |-> IF i < index THEN list[i] ELSE list[i + 1]]

\* The slice with its end index included
SliceInclusive(list, start, end) == SubSeq(list, start + 1, Min(end + 1, Len(list)))

\* list[start:end] with 0-based start, end >= 0
Slice(list, start, end) == SubSeq(list, start + 1, Min(end, Len(list)))

-----------------------------------------------------------------------------
(* ResourceHandler                                                         *)

\* validate_data that always asks for the required fields
validate_data_always_required(data, check_required, doc) ==
    IF doc = None THEN "ok" ELSE validate(data, doc)

\* validate_data with the check_required flag ignored
validate_data_never_required(data, check_required, doc) ==
    IF doc = None THEN "ok"
    ELSE validate(data, [doc EXCEPT !.required = {}])

validate_data(data, check_required, doc) ==
    IF doc = None THEN "ok"
    ELSE validate(data, IF check_required THEN doc
                        ELSE [doc EXCEPT !.required = {}])

\* get_pagination_params with one try block per argument
get_pagination_params_each(page_arg, per_page_arg) ==
    <<IF page_arg.present /\ ~IsIntText(page_arg.text) THEN 1
      ELSE Max(1, IF page_arg.present THEN IntOf(page_arg.text) ELSE 1),
      IF per_page_arg.present /\ ~IsIntText(per_page_arg.text)
      THEN DEFAULT_PAGE_SIZE
      ELSE Min(MAX_PAGE_SIZE,
               Max(1, IF per_page_arg.present THEN IntOf(per_page_arg.text)
                      ELSE DEFAULT_PAGE_SIZE))>>

get_pagination_params(page_arg, per_page_arg) ==
    IF \/ page_arg.present /\ ~IsIntText(page_arg.text)
       \/ per_page_arg.present /\ ~IsIntText(per_page_arg.text)
    THEN <<1, DEFAULT_PAGE_SIZE>>
    ELSE <<Max(1, IF page_arg.present THEN IntOf(page_arg.text) ELSE 1),
           Min(MAX_PAGE_SIZE,
               Max(1, IF per_page_arg.present THEN IntOf(per_page_arg.text)
                      ELSE DEFAULT_PAGE_SIZE))>>

\* The URL of a page, or None for a falsy page number
get_page_url(page_num, per_page) ==
    IF page_num # 0 THEN [k |-> "url", n |-> page_num, s |-> Decimal(per_page)]
    ELSE None

get_pagination_metadata(total_items, requested, per_page) ==
    LET total_pages == Ceil(total_items, per_page)
        page == Min(Max(1, requested), Max(1, total_pages))
    IN  [total_items |-> total_items,
         total_pages |-> total_pages,
         current_page |-> page,
         per_page |-> per_page,
         first_page |-> get_page_url(1, per_page),
         last_page |-> get_page_url(total_pages, per_page),
         next_page |-> IF page < total_pages
                       THEN get_page_url(page + 1, per_page) ELSE None,
         prev_page |-> IF page > 1
                       THEN get_page_url(page - 1, per_page) ELSE None]

\* An item numbered one past the largest id in the list
RECURSIVE MaxIdOf(_)
MaxIdOf(list) ==
    IF Len(list) = 0 THEN 0
    ELSE Max(list[Len(list)]["id"].n, MaxIdOf(SubSeq(list, 1, Len(list) - 1)))

NewItemAfterMax(list, data) ==
    DictMerge([f \in {"id"} |-> JInt(MaxIdOf(list) + 1)], data)

\* The item create() appends
NewItem(list, data) == DictMerge([f \in {"id"} |-> JInt(Len(list) + 1)], data)

\* The item update() puts in place of list[index]
UpdatedItem(list, index, data) ==
    DictMerge([f \in {"id"} |-> list[index]["id"]], data)

TotalItems(list) == [total_items |-> Len(list)]

get_all(page_arg, per_page_arg) ==
    LET list == load_json_file(items)
        params == get_pagination_params(page_arg, per_page_arg)
        start_idx == (params[1] - 1) * params[2]
        end_idx == start_idx + params[2]
    IN  /\ req' = [op |-> "get_all", page |-> page_arg, per_page |-> per_page_arg]
        /\ resp' = IF disk = "malformed" THEN Propagated("JSONDecodeError")
                   ELSE Response(200, Slice(list, start_idx, end_idx),
                                 get_pagination_metadata(Len(list), params[1],
                                                         params[2]))
        /\ files' = Loaded
        /\ UNCHANGED <<resource, schema, items, disk, others>>

get_one(item_id) ==
    LET list == load_json_file(items)
        index == FindIndex(list, item_id)
    IN  /\ req' = [op |-> "get_one", item_id |-> item_id]
        /\ resp' = IF disk = "malformed" THEN Propagated("JSONDecodeError")
                   ELSE IF index = 0 THEN NotFound(resource)
                   ELSE Response(200, list[index], TotalItems(list))
        /\ files' = Loaded
        /\ UNCHANGED <<resource, schema, items, disk, others>>

create(is_json, data) ==
    LET checked == validate_data(data, TRUE, schema)
        list == load_json_file(items)
        new_item == NewItem(list, data)
        appended == Append(list, new_item)
    IN  /\ req' = [op |-> "create", is_json |-> is_json, data |-> data]
        /\ IF ~is_json
           THEN resp' = NotJson /\ UNCHANGED items
           ELSE IF checked = "ValidationError"
           THEN /\ resp' = ErrorResponse(400, "Invalid " \o resource \o " data")
                /\ UNCHANGED items
           ELSE IF checked # "ok" \/ disk # "ok"
           THEN /\ resp' = ErrorResponse(500, "Error creating " \o resource)
                /\ UNCHANGED items
           ELSE /\ items' = save_json_file(appended)
                /\ resp' = Response(201, new_item, TotalItems(appended))
        /\ files' = IF is_json /\ checked = "ok" THEN Loaded ELSE files
        /\ UNCHANGED <<resource, schema, disk, others>>

update(item_id, is_json, data) ==
    LET checked == validate_data(data, FALSE, schema)
        list == load_json_file(items)
        item_index == FindIndex(list, item_id)
        updated_item == UpdatedItem(list, item_index, data)
        replaced == [list EXCEPT ![item_index] = updated_item]
    IN  /\ req' = [op |-> "update", item_id |-> item_id, is_json |-> is_json,
                   data |-> data]
        /\ IF ~is_json
           THEN resp' = NotJson /\ UNCHANGED items
           ELSE IF checked = "ValidationError"
           THEN /\ resp' = ErrorResponse(400, "Invalid " \o resource \o " data")
                /\ UNCHANGED items
           ELSE IF checked # "ok" \/ disk = "malformed"
           THEN /\ resp' = ErrorResponse(500, "Error updating " \o resource)
                /\ UNCHANGED items
           ELSE IF item_index = 0
           THEN resp' = NotFound(resource) /\ UNCHANGED items
           ELSE IF disk # "ok"
           THEN /\ resp' = ErrorResponse(500, "Error updating " \o resource)
                /\ UNCHANGED items
           ELSE /\ items' = save_json_file(replaced)
                /\ resp' = Response(200, updated_item, TotalItems(replaced))
        /\ files' = IF is_json /\ checked = "ok" THEN Loaded ELSE files
        /\ UNCHANGED <<resource, schema, disk, others>>

delete(item_id) ==
    LET list == load_json_file(items)
        item_index == FindIndex(list, item_id)
        remaining == Pop(list, item_index)
    IN  /\ req' = [op |-> "delete", item_id |-> item_id]
        /\ IF disk = "malformed"
           THEN resp' = Propagated("JSONDecodeError") /\ UNCHANGED items
           ELSE IF item_index = 0
           THEN resp' = NotFound(resource) /\ UNCHANGED items
           ELSE IF disk # "ok"
           THEN resp' = Propagated("PermissionError") /\ UNCHANGED items
           ELSE /\ items' = save_json_file(remaining)
                /\ resp' = Response(200, list[item_index], TotalItems(remaining))
        /\ files' = Loaded
        /\ UNCHANGED <<resource, schema, disk, others>>

\* A Create issued while the file holds fewer than cap records
create_below(cap, is_json, data) == Len(items) < cap /\ create(is_json, data)

-----------------------------------------------------------------------------
(* Schema management endpoints, for the name of the handled resource.      *)

get_schema ==
    /\ req' = [op |-> "get_schema"]
    /\ resp' = IF schema = None THEN ErrorResponse(404, "Schema not found")
               ELSE Response(200, schema, None)
    /\ UNCHANGED <<resource, schema, items, disk, files, others>>

update_schema(is_json, doc) ==
    /\ req' = [op |-> "update_schema", is_json |-> is_json, data |-> doc]
    /\ IF ~is_json
       THEN resp' = NotJson /\ UNCHANGED schema
       ELSE IF validate(<<>>, doc) # "ok"
       THEN resp' = ErrorResponse(400, "Invalid schema") /\ UNCHANGED schema
       ELSE schema' = doc /\ resp' = Response(200, doc, None)
    /\ UNCHANGED <<resource, items, disk, files, others>>

-----------------------------------------------------------------------------
(* The server: requests on one resource, answered one at a time.           *)

NoRequest == [op |-> "none"]

\* The worker threads, and a thread that answers no request
Threads == {"t1", "t2"}
Idle ==
    [pc |-> "idle", op |-> "none", item_id |-> "", data |-> <<>>,
     snapshot |-> <<>>, stale |-> FALSE, resp |-> ErrorResponse(0, "")]

\* After startup: the data file is sound, the handled resource is the one
\* file found and bound, no request is being answered
Started ==
    /\ disk = "ok"
    /\ files = {resource}
    /\ routes = {resource}
    /\ threads = [t \in Threads |-> Idle]

Init ==
    /\ resource \in {"users", "notes"}
    /\ schema = init_schemas(resource)
    /\ items = <<>>
    /\ req = NoRequest
    /\ resp = ErrorResponse(0, "")
    /\ Started

Requests(createBodies, updateBodies, pageArgs, perPageArgs, docs) ==
    \/ \E p \in pageArgs, pp \in perPageArgs : get_all(p, pp)
    \/ \E id \in ItemIds : get_one(id)
    \/ \E j \in BOOLEAN, d \in createBodies : create_below(MaxItems, j, d)
    \/ \E id \in ItemIds, j \in BOOLEAN, d \in updateBodies : update(id, j, d)
    \/ \E id \in ItemIds : delete(id)
    \/ get_schema
    \/ \E j \in BOOLEAN, d \in docs : update_schema(j, d)

Next ==
    Requests(Payloads, Payloads, {QAbsent, Q("2")}, {QAbsent, Q("1")},
             {DEFAULT_SCHEMAS["users"], OpenSchema, MalformedSchema})

Spec == Init /\ [][Next]_vars

\* The same server when no request body carries an "id" field
NextPlain ==
    Requests(Payloads \ {PWithId}, Payloads \ {PWithId},
             {QAbsent, Q("2")}, {QAbsent, Q("1")},
             {DEFAULT_SCHEMAS["users"], OpenSchema, MalformedSchema})

SpecPlain == Init /\ [][NextPlain]_vars

\* The file after n creates of PUser on an empty resource
RECURSIVE Created(_)
Created(n) ==
    IF n = 0 THEN <<>>
    ELSE LET before == Created(n - 1)
         IN  Append(before, NewItem(before, PUser))

\* Listing a resource that holds 0 .. MaxTotal records
InitList ==
    /\ resource = "users"
    /\ schema = init_schemas(resource)
    /\ items \in {Created(n) : n \in 0 .. MaxTotal}
    /\ req = NoRequest
    /\ resp = ErrorResponse(0, "")
    /\ Started

NextList == \E p \in PageArgs, pp \in PerPageArgs : get_all(p, pp)

SpecList == InitList /\ [][NextList]_vars

\* The schema endpoints for each of the resource names
InitSchema ==
    /\ resource \in DOMAIN DEFAULT_SCHEMAS \cup {"notes"}
    /\ schema = init_schemas(resource)
    /\ items = <<>>
    /\ req = NoRequest
    /\ resp = ErrorResponse(0, "")
    /\ Started

SchemaDocs ==
    {DEFAULT_SCHEMAS[n] : n \in DOMAIN DEFAULT_SCHEMAS}
        \cup {RelaxedSchema, OpenSchema, MalformedSchema}

NextSchema ==
    \/ get_schema
    \/ \E j \in BOOLEAN, d \in SchemaDocs : update_schema(j, d)
    \/ \E d \in {PUser, PDevice, PExtra} : create_below(MaxItems, TRUE, d)

SpecSchema == InitSchema /\ [][NextSchema]_vars

\* The server when a request body may carry an id that is no integer
NextLoose ==
    Requests({PUser, PTextId}, {PName, PTextId}, {QAbsent}, {QAbsent},
             {OpenSchema})

SpecLoose == Init /\ [][NextLoose]_vars

\* The server followed for the ids it hands out: no request body carries an
\* id, and the file may grow to MaxIds records
IdsNamed == {Decimal(n) : n \in 1 .. MaxIds}

NextIds ==
    \/ create_below(MaxIds, TRUE, PUser)
    \/ \E id \in IdsNamed : update(id, TRUE, PName)
    \/ \E id \in IdsNamed : delete(id)
    \/ \E id \in IdsNamed : get_one(id)

SpecIds == Init /\ [][NextIds]_vars

\* The server while nobody rewrites the schema: record requests only, no
\* request body carries an id
NextFixed ==
    \/ \E j \in BOOLEAN, d \in Payloads \ {PWithId} : create_below(MaxItems, j, d)
    \/ \E id \in ItemIds, j \in BOOLEAN, d \in Payloads \ {PWithId} : update(id, j, d)
    \/ \E id \in ItemIds : delete(id)
    \/ \E id \in ItemIds : get_one(id)

SpecFixed == Init /\ [][NextFixed]_vars

-----------------------------------------------------------------------------
(* The data file failing under the server.                                 *)

DiskStates == {"ok", "malformed", "unwritable"}

\* The file's text stops being JSON, or the file stops accepting writes, or
\* it is put right again; json.load and open(file_path, 'w') raise accordingly
damage(d) ==
    /\ d # disk
    /\ disk' = d
    /\ UNCHANGED <<resource, schema, items, req, resp, files, others>>

NextFault ==
    \/ \E d \in DiskStates : damage(d)
    \/ get_all(QAbsent, QAbsent)
    \/ \E id \in ItemIds : get_one(id)
    \/ \E d \in {PUser, PName} : create_below(MaxItems, TRUE, d)
    \/ \E id \in ItemIds, d \in {PName, PBadType} : update(id, TRUE, d)
    \/ \E id \in ItemIds : delete(id)

SpecFault == Init /\ [][NextFault]_vars

-----------------------------------------------------------------------------
(* The data directory changing under the server.  Routes are bound once,   *)
(* when the module is loaded; the root endpoint lists the directory anew   *)
(* on every request.                                                       *)

ResourceNames == {"users", "notes", "new"}

\* The server started on a directory that holds the handled resource's file
\* and any of the others
InitRoutes ==
    /\ resource = "users"
    /\ schema = init_schemas(resource)
    /\ items = <<>>
    /\ req = NoRequest
    /\ resp = ErrorResponse(0, "")
    /\ disk = "ok"
    /\ files \in {S \in SUBSET ResourceNames : resource \in S}
    /\ routes = files
    /\ threads = [t \in Threads |-> Idle]

\* data/<name>.json is put into the directory, holding []
add_file(name) ==
    /\ name \notin files
    /\ files' = files \cup {name}
    /\ UNCHANGED <<resource, schema, items, req, resp, disk, others>>

\* data/<name>.json is taken out of the directory
remove_file(name) ==
    /\ name \in files
    /\ files' = files \ {name}
    /\ items' = IF name = resource THEN <<>> ELSE items
    /\ UNCHANGED <<resource, schema, req, resp, disk, others>>

\* GET /: the endpoints of every file get_resource_files() finds now
hello_world ==
    /\ req' = [op |-> "hello_world"]
    /\ resp' = [status |-> 200, error |-> "",
                data |-> [available_endpoints |-> files], metadata |-> None]
    /\ UNCHANGED <<resource, schema, items, disk, files, others>>

\* A request for /<name> when no rule was added for that name
unbound(name) ==
    /\ name \notin routes
    /\ req' = [op |-> "unbound", name |-> name]
    /\ resp' = [status |-> 404, error |-> "",
                data |-> [k |-> "exception", n |-> 0, s |-> "NotFound"],
                metadata |-> None]
    /\ UNCHANGED <<resource, schema, items, disk, files, others>>

NextRoutes ==
    \/ \E name \in ResourceNames : add_file(name)
    \/ \E name \in ResourceNames : remove_file(name)
    \/ hello_world
    \/ \E name \in ResourceNames : unbound(name)
    \/ get_all(QAbsent, QAbsent)
    \/ create_below(MaxItems, TRUE, PUser)

SpecRoutes == InitRoutes /\ [][NextRoutes]_vars

-----------------------------------------------------------------------------
(* Two worker threads on one resource.  A handler reads the file into a    *)
(* local list, works on that list and writes it back; another thread may   *)
(* run between the read and the write.                                     *)

\* A Create that reads the file again when it writes
SnapshotReread(t) ==
    IF threads[t].op = "create" THEN load_json_file(items)
    ELSE threads[t].snapshot

\* The local variable items of the handler thread t is running
Snapshot(t) == threads[t].snapshot

\* The threads after t has written the file: those between their read and
\* their write now hold a list that is no longer the file's
Overtaken(t) ==
    [u \in Threads |->
        IF u # t /\ threads[u].pc = "loaded"
        THEN [threads[u] EXCEPT !.stale = TRUE]
        ELSE threads[u]]

Answer(t, response) == [threads[t] EXCEPT !.pc = "done", !.resp = response]

\* create() up to and including items = self.load_json_file()
create_load(t, data) ==
    LET checked == validate_data(data, TRUE, schema)
        request == [Idle EXCEPT !.op = "create", !.data = data]
    IN  /\ threads[t].pc # "loaded"
        /\ Len(items) < MaxItems
        /\ threads' = [threads EXCEPT ![t] =
              IF checked = "ValidationError"
              THEN [request EXCEPT !.pc = "done",
                       !.resp = ErrorResponse(400, "Invalid " \o resource \o " data")]
              ELSE IF checked # "ok" \/ disk = "malformed"
              THEN [request EXCEPT !.pc = "done",
                       !.resp = ErrorResponse(500, "Error creating " \o resource)]
              ELSE [request EXCEPT !.pc = "loaded",
                       !.snapshot = load_json_file(items)]]
        /\ files' = IF checked = "ok" THEN Loaded ELSE files
        /\ UNCHANGED <<resource, schema, items, req, resp, disk, routes>>

\* create() from new_item = ... to the response
create_save(t) ==
    LET list == Snapshot(t)
        new_item == NewItem(list, threads[t].data)
        appended == Append(list, new_item)
    IN  /\ threads[t].pc = "loaded"
        /\ threads[t].op = "create"
        /\ IF disk # "ok"
           THEN /\ threads' = [threads EXCEPT ![t] = Answer(t,
                      ErrorResponse(500, "Error creating " \o resource))]
                /\ UNCHANGED items
           ELSE /\ items' = save_json_file(appended)
                /\ threads' = [Overtaken(t) EXCEPT ![t] = Answer(t,
                      Response(201, new_item, TotalItems(appended)))]
        /\ UNCHANGED <<resource, schema, req, resp, disk, files, routes>>

\* delete() up to and including the search for the record
delete_load(t, item_id) ==
    LET list == load_json_file(items)
        request == [Idle EXCEPT !.op = "delete", !.item_id = item_id]
    IN  /\ threads[t].pc # "loaded"
        /\ threads' = [threads EXCEPT ![t] =
              IF disk = "malformed"
              THEN [request EXCEPT !.pc = "done",
                       !.resp = Propagated("JSONDecodeError")]
              ELSE IF FindIndex(list, item_id) = 0
              THEN [request EXCEPT !.pc = "done", !.resp = NotFound(resource)]
              ELSE [request EXCEPT !.pc = "loaded", !.snapshot = list]]
        /\ files' = Loaded
        /\ UNCHANGED <<resource, schema, items, req, resp, disk, routes>>

\* delete() from items.pop(item_index) to the response
delete_save(t) ==
    LET list == Snapshot(t)
        item_index == FindIndex(list, threads[t].item_id)
        remaining == Pop(list, item_index)
    IN  /\ threads[t].pc = "loaded"
        /\ threads[t].op = "delete"
        /\ IF disk # "ok"
           THEN /\ threads' = [threads EXCEPT ![t] = Answer(t,
                      Propagated("PermissionError"))]
                /\ UNCHANGED items
           ELSE /\ items' = save_json_file(remaining)
                /\ threads' = [Overtaken(t) EXCEPT ![t] = Answer(t,
                      Response(200, list[item_index], TotalItems(remaining)))]
        /\ UNCHANGED <<resource, schema, req, resp, disk, files, routes>>

NextRace ==
    \/ \E t \in Threads, d \in {PUser, PName} : create_load(t, d)
    \/ \E t \in Threads : create_save(t)
    \/ \E t \in Threads, id \in ItemIds : delete_load(t, id)
    \/ \E t \in Threads : delete_save(t)

SpecRace == Init /\ [][NextRace]_vars

\* The two threads when every request is a Create whose body carries no id
NextCreates ==
    \/ \E t \in Threads, d \in {PUser, PName} : create_load(t, d)
    \/ \E t \in Threads : create_save(t)

SpecCreates == Init /\ [][NextCreates]_vars

-----------------------------------------------------------------------------
(* Properties of the handlers.                                             *)

\* Some stored record carries this id, ids compared as strings
Carries(list, item_id) ==
    \E i \in 1 .. Len(list) : Str(GetId(list[i])) = item_id

\* C1: a successful Update(id, payload) leaves the id of the record it
\* replaces as it was, in the file and in the response, whatever the payload.
C1_UpdateKeepsId ==
    [][(req'.op = "update" /\ resp'.status = 200) =>
        LET i == FindIndex(items, req'.item_id)
        IN  /\ items'[i]["id"] = items[i]["id"]
            /\ resp'.data["id"] = items[i]["id"]]_vars

\* C2: a successful Create returns and appends a record whose id is the
\* number of records stored before it plus one, and reports that number plus
\* one as total_items.
C2_CreateIdByCount ==
    [][(req'.op = "create" /\ resp'.status = 201) =>
        /\ resp'.data["id"] = JInt(Len(items) + 1)
        /\ items' = Append(items, resp'.data)
        /\ resp'.metadata.total_items = Len(items) + 1]_vars

\* C3: a GetOne of the id a successful Create has just returned answers 200
\* with the record that Create returned, which is the request body plus the id.
C3_CreateGetRoundTrip ==
    [][(/\ req.op = "create" /\ resp.status = 201
        /\ req'.op = "get_one" /\ req'.item_id = Str(resp.data["id"])) =>
        /\ resp'.status = 200
        /\ resp'.data = resp.data
        /\ \A f \in DOMAIN req.data : resp'.data[f] = req.data[f]]_vars

\* C4: a GetOne of the id a successful Delete has just removed answers 404.
C4_DeleteThenGetNotFound ==
    [][(/\ req.op = "delete" /\ resp.status = 200
        /\ req'.op = "get_one" /\ req'.item_id = req.item_id) =>
        resp'.status = 404]_vars

\* C5 as claimed: with a schema, a Create whose body omits a required field
\* or carries a field the schema does not declare answers 400 and leaves the
\* file as it was.
C5_CreateRejectsUndeclared ==
    [][(/\ req'.op = "create" /\ req'.is_json /\ schema # None
        /\ \/ ~(schema.required \subseteq DOMAIN req'.data)
           \/ ~(DOMAIN req'.data \subseteq DOMAIN schema.properties)) =>
        (resp'.status = 400 /\ items' = items)]_vars

\* C5 amended: with a schema, a Create whose body omits a required field, or
\* carries an undeclared field while the schema sets additionalProperties to
\* false, answers 400 and leaves the file as it was.
C5_CreateValidation ==
    [][(/\ req'.op = "create" /\ req'.is_json /\ schema # None
        /\ \/ ~(schema.required \subseteq DOMAIN req'.data)
           \/ /\ ~schema.additionalProperties
              /\ ~(DOMAIN req'.data \subseteq DOMAIN schema.properties)) =>
        (resp'.status = 400 /\ items' = items)]_vars

\* A Create with an undeclared field was refused on a non-empty resource
C5_Witness ==
    /\ req.op = "create" /\ req.is_json /\ req.data = PExtra
    /\ schema # None /\ ~schema.additionalProperties
    /\ resp.status = 400 /\ Len(items) > 0

\* C6: GetOne, Delete, and Update with a valid JSON body, of an id that no
\* stored record carries answer 404 and leave the file as it was.
C6_NotFound ==
    [][(/\ req'.op \in {"get_one", "update", "delete"}
        /\ ~Carries(items, req'.item_id)
        /\ req'.op = "update" =>
              (req'.is_json /\ validate_data(req'.data, FALSE, schema) = "ok")) =>
        (/\ resp'.status = 404
         /\ resp'.error = Title(resource) \o " not found"
         /\ items' = items)]_vars

\* An Update of an absent id was answered 404 on a non-empty resource
C6_Witness ==
    /\ req.op = "update" /\ req.is_json /\ ~Carries(items, req.item_id)
    /\ resp.status = 404 /\ Len(items) > 0

\* int() accepts the argument, or the argument is absent
ArgIsInt(arg) == ~arg.present \/ IsIntText(arg.text)
ArgValue(arg, default) == IF arg.present THEN IntOf(arg.text) ELSE default

C10_SchemaPutRoundTrip ==
    [][(req'.op = "update_schema" /\ req'.is_json) =>
        /\ (resp'.status = 200) <=> req'.data.wellformed
        /\ resp'.status = 200 => (schema' = req'.data /\ resp'.data = req'.data)
        /\ (req.op = "get_schema" /\ resp.status = 200 /\ req'.data = resp.data)
              => resp'.status = 200]_vars

\* C11: every stored record carries an id that is an integer >= 1, in a
\* resource with a schema and in one without.
C11_PositiveIntegerIds ==
    \A i \in 1 .. Len(items) :
        /\ "id" \in DOMAIN items[i]
        /\ items[i]["id"].k = "int"
        /\ items[i]["id"].n >= 1

-----------------------------------------------------------------------------
(* Concurrent requests (SpecRace)                                          *)

\* Thread t has answered a Create with 201
CreatedBy(t) ==
    /\ threads[t].pc = "done"
    /\ threads[t].op = "create"
    /\ threads[t].resp.status = 201

\* Thread t has answered a Delete with 200
DeletedBy(t) ==
    /\ threads[t].pc = "done"
    /\ threads[t].op = "delete"
    /\ threads[t].resp.status = 200

\* C12: two Creates that loaded the same record sequence are both answered
\* 201 with the same id, the length of that sequence plus one, whichever of
\* them saved first.
C12_DuplicateIdRace ==
    \A t, u \in Threads :
        (/\ t # u
         /\ CreatedBy(t) /\ CreatedBy(u)
         /\ threads[t].snapshot = threads[u].snapshot)
        => /\ threads[t].resp.data["id"] = JInt(Len(threads[t].snapshot) + 1)
           /\ threads[u].resp.data["id"] = threads[t].resp.data["id"]

\* Both Creates are answered, the second saved a list it had read before the
\* first one's save, and the two responses carry one id
C12_Witness ==
    \E t, u \in Threads :
        /\ t # u
        /\ CreatedBy(t) /\ CreatedBy(u)
        /\ threads[t].stale
        /\ threads[t].snapshot = threads[u].snapshot
        /\ threads[t].resp.data["id"] = threads[u].resp.data["id"]

\* C13: when two mutating requests that loaded the same record sequence have
\* both succeeded, the file holds the result of one of them alone: after two
\* Creates it is that sequence plus ONE record, after a Create and a Delete
\* it is either the sequence plus the new record (nothing deleted) or the
\* sequence less the deleted record (nothing appended).
C13_LostUpdateRace ==
    \A t, u \in Threads :
        (t # u /\ threads[t].snapshot = threads[u].snapshot /\ CreatedBy(t))
        => LET s == threads[t].snapshot
           IN  /\ CreatedBy(u) =>
                    /\ Len(items) = Len(s) + 1
                    /\ items \in {Append(s, threads[t].resp.data),
                                  Append(s, threads[u].resp.data)}
               /\ DeletedBy(u) =>
                    items \in {Append(s, threads[t].resp.data),
                               Pop(s, FindIndex(s, threads[u].item_id))}

\* Two Creates with different bodies both answered 201, the later save made
\* from a list read before the earlier save: the file grew by one record and
\* the earlier record is not in it
C13_Witness ==
    \E t, u \in Threads :
        /\ t # u
        /\ CreatedBy(t) /\ CreatedBy(u)
        /\ threads[t].stale
        /\ threads[t].snapshot = threads[u].snapshot
        /\ threads[t].data # threads[u].data
        /\ items = Append(threads[t].snapshot, threads[t].resp.data)
        /\ \A i \in 1 .. Len(items) : items[i] # threads[u].resp.data

-----------------------------------------------------------------------------
(* Ids over creates and deletes (SpecIds)                                  *)

IdAt(list, i) == list[i]["id"].n

\* C14: the ids of the stored records never decrease along the stored order.
C14_IdsNonDecreasing ==
    \A i, j \in 1 .. Len(items) : i < j => IdAt(items, i) <= IdAt(items, j)

\* The last request was a Delete answered 200 that took one record out of a
\* store whose ids were exactly 1 .. n, n >= 2
DeletedFromDense(n) ==
    /\ n >= 2
    /\ req.op = "delete"
    /\ resp.status = 200
    /\ Len(items) = n - 1
    /\ {IdAt(items, i) : i \in 1 .. Len(items)} \cup {resp.data["id"].n} = 1 .. n

\* The next request is a Create, with no id in its body, answered 201
ThenCreated ==
    /\ req'.op = "create"
    /\ "id" \notin DOMAIN req'.data
    /\ resp'.status = 201

\* C15: on a store with ids exactly 1 .. n (n >= 2), a Delete followed by a
\* Create without id stores the new record under id n; if the deleted record
\* was not the one with id n, a different record already stored has id n, and
\* if it was the one with id n, no other stored record has id n.
C15_CollisionAfterDelete ==
    [][\A n \in 2 .. MaxIds :
        (DeletedFromDense(n) /\ ThenCreated)
        => /\ resp'.data["id"] = JInt(n)
           /\ items' = Append(items, resp'.data)
           /\ (resp.data["id"].n # n)
                 => \E i \in 1 .. Len(items) : IdAt(items, i) = n
           /\ (resp.data["id"].n = n)
                 => \A i \in 1 .. Len(items) : IdAt(items, i) # n]_vars

\* Delete id 2 of 1, 2, 3 and create: the store holds the ids 1, 3, 3
C15_Witness ==
    /\ req.op = "create"
    /\ resp.status = 201
    /\ Len(items) = 3
    /\ [i \in 1 .. 3 |-> IdAt(items, i)] = <<1, 3, 3>>
    /\ resp.data = items[3]

-----------------------------------------------------------------------------
(* Update and Delete (Spec)                                                *)

\* Every field of the body is declared by the schema and fits its subschema
DeclaredAndTyped(data, doc) ==
    /\ DOMAIN data \subseteq DOMAIN doc.properties
    /\ \A f \in DOMAIN data : ValidProperty(data[f], doc.properties[f])

\* Some field of the body is declared by the schema and does not fit it
TypeViolation(data, doc) ==
    \E f \in DOMAIN data \cap DOMAIN doc.properties :
        ~ValidProperty(data[f], doc.properties[f])

\* C16 as claimed: with a schema, an Update of a stored id whose body has only
\* declared, well-typed fields answers 200 even if required fields are
\* missing; an Update whose body has an undeclared field or a type violation
\* answers 400 and leaves the file as it was.
C16_UpdateRejectsUndeclared ==
    [][(req'.op = "update" /\ req'.is_json /\ schema # None) =>
        /\ (DeclaredAndTyped(req'.data, schema) /\ Carries(items, req'.item_id))
              => resp'.status = 200
        /\ (\/ ~(DOMAIN req'.data \subseteq DOMAIN schema.properties)
            \/ TypeViolation(req'.data, schema))
              => (resp'.status = 400 /\ items' = items)]_vars

\* C16 amended: the same, where an undeclared field is refused only while the
\* schema sets additionalProperties to false.
C16_UpdateValidation ==
    [][(req'.op = "update" /\ req'.is_json /\ schema # None) =>
        /\ (DeclaredAndTyped(req'.data, schema) /\ Carries(items, req'.item_id))
              => resp'.status = 200
        /\ (\/ /\ ~schema.additionalProperties
               /\ ~(DOMAIN req'.data \subseteq DOMAIN schema.properties)
            \/ TypeViolation(req'.data, schema))
              => (resp'.status = 400 /\ items' = items)]_vars

\* An Update whose body leaves out the required email was answered 200
C16_Witness ==
    /\ req.op = "update" /\ req.is_json /\ req.data = PName
    /\ schema # None /\ "email" \in schema.required
    /\ resp.status = 200

\* C17: a Delete answered 200 takes out the first record in stored order that
\* carries the id and nothing else: the response's data is that record,
\* total_items is the previous count less one, and the other records keep
\* their content, ids and order.
C17_DeleteFrame ==
    [][(req'.op = "delete" /\ resp'.status = 200) =>
        \E i \in 1 .. Len(items) :
            /\ Str(GetId(items[i])) = req'.item_id
            /\ \A j \in 1 .. (i - 1) : Str(GetId(items[j])) # req'.item_id
            /\ resp'.data = items[i]
            /\ resp'.metadata = [total_items |-> Len(items) - 1]
            /\ Len(items') = Len(items) - 1
            /\ \A j \in 1 .. Len(items') :
                  items'[j] = IF j < i THEN items[j] ELSE items[j + 1]]_vars

\* A Delete took out the first of two records, and the one left, which
\* carries the same id with other content, stays
C17_Witness ==
    /\ req.op = "delete" /\ resp.status = 200
    /\ Len(items) = 1
    /\ Str(GetId(items[1])) = req.item_id
    /\ items[1] # resp.data

-----------------------------------------------------------------------------
(* Failures and discovery (SpecFault, SpecRoutes)                          *)

Operations == {"get_all", "get_one", "create", "update", "delete"}

\* C18: whichever of the five operations is asked for while the data file
\* cannot be loaded or saved, the answer is an error status with a JSON body
\* {error: message}: no exception leaves the handler.
C18_HandlersConvertExceptions ==
    [][(req'.op \in Operations /\ disk # "ok" /\ disk' = disk) =>
        \/ (resp'.status \in {400, 404, 500} /\ resp'.error # "")
        \/ (resp'.status \in {200, 201} /\ resp'.error = "")]_vars

\* C19: what the root endpoint lists is the set of resources whose routes
\* were bound at startup, whatever happened to the data directory since.
C19_AdvertisedAreBound ==
    req.op = "hello_world" => resp.data.available_endpoints = routes

-----------------------------------------------------------------------------
(* List (SpecList), continued                                              *)

-----------------------------------------------------------------------------
(* The store against its schema (SpecFixed)                                *)

\* C21: while the schema of the resource stays as it is, every stored record
\* satisfies the whole schema, its required fields included, after any run
\* of Creates, Updates and Deletes from the empty file.
C21_StoreConformsToSchema ==
    schema # None =>
        \A i \in 1 .. Len(items) : validate(items[i], schema) = "ok"

-----------------------------------------------------------------------------
(* Concurrent Creates only (SpecCreates)                                   *)

\* C22: when every request is a Create without id, however the reads and
\* writes of the threads interleave, the file holds the ids 1, 2, ..., k in
\* this order, without duplicate and without gap.
C22_CreateOnlyDense ==
    \A i \in 1 .. Len(items) :
        /\ "id" \in DOMAIN items[i]
        /\ items[i]["id"] = JInt(i)

\* A Create was lost (answered 201 from a list read before the other
\* thread's save, its answer's record or the other's no longer in the file)
\* and the file went on to hold two records
C22_Witness ==
    \E t, u \in Threads :
        /\ t # u
        /\ CreatedBy(t) /\ CreatedBy(u)
        /\ threads[u].stale
        /\ Len(items) >= 2
        /\ items[Len(items)] = threads[t].resp.data
        /\ threads[u].resp.data["id"] = JInt(1)

=============================================================================
